---------------------------- MODULE Spec2Model ----------------------------
(***************************************************************************)
(* Model of the Dagger modules of adore-me/daggerverse.                    *)
(*                                                                         *)
(*  - Gh (gh/dagger/main.go): CreateLocalBranch, CommitChangesInNewBranch  *)
(*    act on a local git repository through go-git;  GetFileFromRemote     *)
(*    and CreatePullRequest call the GitHub REST API through go-github.    *)
(*  - Istio (istio/dagger/main.go, github/dagger/main.go): IsNewerVersion  *)
(*    and CreateUpdatePR compare two semantic-version strings.             *)
(*                                                                         *)
(* The libraries are collaborators: each of their calls is modelled by its *)
(* documented effect, and by failing when the environment makes it fail.   *)
(***************************************************************************)
EXTENDS Integers, Sequences, FiniteSets, TLC

(***************************************************************************)
(* Bounds of the model.                                                    *)
(***************************************************************************)
\* Largest number of commit objects the object store may hold.
MaxCommits == 3
\* Tree contents are numbered 0..MaxTree.
MaxTree == 1
\* Longest version string (in characters) the version module is given.
MaxVerLen == 3

Branches == {"main", "feat"}
Trees == 0 .. MaxTree
Hashes == 1 .. MaxCommits
\* plumbing.ZeroHash: no commit.
NoHash == 0

\* The library calls of the two local operations that the environment
\* (filesystem, Dagger engine) can make fail, whatever the repository holds.
EnvSteps == {"export", "open", "worktree", "checkout", "setref", "add", "commit"}

VARIABLES
    repo,        \* the git repository exported at "./" + m.Repo
    BaseBranch,  \* Gh.BaseBranch
    broken,      \* the library call the environment currently makes fail
    last,        \* the last operation: its arguments and what it returned
    LatestVersion, LocalVersion,  \* Istio.LatestVersion, Istio.LocalVersion
    verResult,   \* what the last call on the Istio module returned
    remote,      \* the GitHub side: branches, contents, token, transport
    apiResult,   \* what the last call on the GitHub API returned
    calls,       \* the calls in flight on the exported repository, per caller
    serialized,  \* whether the callers run their calls one at a time
    ConfigMap,   \* Istio.ConfigMap: the document the module's file holds
    cmResult,    \* what the last ReturnUpdatedCm returned
    gitConfig,   \* .git/config of Gh.RepoPath
    runResult    \* what the last RunGit did and returned

vars == <<repo, BaseBranch, broken, last, LatestVersion, LocalVersion,
          verResult, remote, apiResult, calls, serialized, ConfigMap, cmResult,
          gitConfig, runResult>>
gitVars == <<repo, BaseBranch, broken, last>>
verVars == <<LatestVersion, LocalVersion, verResult>>
apiVars == <<remote, apiResult>>
concVars == <<calls, serialized>>
cmVars == <<ConfigMap, cmResult>>
runVars == <<gitConfig, runResult>>

(***************************************************************************)
(* The git repository, as go-git sees it.                                  *)
(*   head    : HEAD, symbolic ([type |-> "sym", target |-> branch]) or     *)
(*             detached ([type |-> "hash", hash |-> h])                    *)
(*   refs    : refs/heads/<b> -> commit hash, for the branches that exist  *)
(*   commits : the commit objects, hash -> [parent, tree]                  *)
(*   idx, wt : the tree staged in the index, the tree in the working copy  *)
(***************************************************************************)
SymRef(b) == [type |-> "sym", target |-> b]
HashRef(h) == [type |-> "hash", hash |-> h]

\* gitRepo.Reference(plumbing.NewBranchReferenceName(b), true): err iff absent.
Reference(r, b) ==
    IF b \in DOMAIN r.refs THEN [err |-> FALSE, hash |-> r.refs[b]]
    ELSE [err |-> TRUE, hash |-> NoHash]

\* gitRepo.Head(): HEAD resolved to a hash; err when HEAD names a branch
\* that has no reference (plumbing.ErrReferenceNotFound).
RepoHead(r) ==
    IF r.head.type = "hash" THEN [err |-> FALSE, hash |-> r.head.hash]
    ELSE Reference(r, r.head.target)

\* Variant of SetReference: the write replaces the reference store by the
\* one reference it writes.
SetReferenceReplace(r, b, h) ==
    [r EXCEPT !.refs = [x \in {b} |-> h]]

\* gitRepo.Storer.SetReference(plumbing.NewHashReference(refs/heads/b, h)):
\* creates the reference or overwrites it, with no check of the old value.
SetReference(r, b, h) ==
    [r EXCEPT !.refs = [x \in (DOMAIN r.refs) \cup {b} |->
                            IF x = b THEN h ELSE r.refs[x]]]

\* wt.Checkout(&git.CheckoutOptions{Branch: refs/heads/b}), not forced.
\* go-git resolves the branch to its commit, points HEAD at the branch, and
\* then resets index and working copy (merge reset), which is refused when
\* the working copy holds unstaged changes: HEAD has moved by then.
\* A failure of the environment leaves the repository as it was.
Checkout(r, b, env) ==
    IF env = "checkout" \/ b \notin DOMAIN r.refs
    THEN [repo |-> r, err |-> TRUE]
    ELSE LET moved == [r EXCEPT !.head = SymRef(b)]
             tree == r.commits[r.refs[b]].tree
         IN  IF r.wt # r.idx
             THEN [repo |-> moved, err |-> TRUE]
             ELSE [repo |-> [moved EXCEPT !.idx = tree, !.wt = tree],
                   err |-> FALSE]

\* wt.Add("."): stages every change of the working copy.
Add(r, env) ==
    IF env = "add" THEN [repo |-> r, err |-> TRUE]
    ELSE [repo |-> [r EXCEPT !.idx = r.wt], err |-> FALSE]

\* The hash of the next commit object written to the store.
NewHash(r) == Cardinality(DOMAIN r.commits) + 1

\* Variant of CommitParent: the commit is written without a parent.
CommitParentNone(r) == NoHash

\* The parent wt.Commit gives a commit when CommitOptions.Parents is empty:
\* the hash HEAD resolves to.
CommitParent(r) == RepoHead(r).hash

\* wt.Commit(commitTitle, &git.CommitOptions{All: true, Author: ...}):
\* stages modified and deleted files, writes a commit of the index whose
\* parent is HEAD, and moves the branch HEAD names (HEAD itself when
\* detached) to it.  No other reference is touched.  Whether go-git refuses
\* a commit that changes nothing (ErrEmptyCommit) depends on its release;
\* that refusal is one of the failures env = "commit" stands for.
Commit(r, env) ==
    IF env = "commit" THEN [repo |-> r, err |-> TRUE, hash |-> NoHash]
    ELSE LET h == NewHash(r)
             c == [parent |-> CommitParent(r), tree |-> r.wt]
             stored == [r EXCEPT !.idx = r.wt,
                                 !.commits = [x \in (DOMAIN r.commits) \cup {h} |->
                                     IF x = h THEN c ELSE r.commits[x]]]
             moved == IF r.head.type = "hash"
                      THEN [stored EXCEPT !.head = HashRef(h)]
                      ELSE SetReference(stored, r.head.target, h)
         IN  [repo |-> moved, err |-> FALSE, hash |-> h]

(***************************************************************************)
(* Results of the two local operations.  failed: the library calls that    *)
(* returned an error during the run, in the order of the source.           *)
(***************************************************************************)
Ok(r, msg, failed) ==
    [repo |-> r, ok |-> TRUE, msg |-> msg, failed |-> failed, commit |-> NoHash]
Err(r, msg, failed) ==
    [repo |-> r, ok |-> FALSE, msg |-> msg, failed |-> failed, commit |-> NoHash]

\* Variant of CreateLocalBranchRun: HEAD is read before the checkout of the
\* base branch instead of after it.
CreateLocalBranchRunHeadFirst(r, base, branchName, env) ==
    IF env = "export" THEN Err(r, "failed to export repository", {"export"})
    ELSE IF env = "open" THEN Err(r, "failed to open repository", {"open"})
    ELSE IF Reference(r, base).err
         THEN Err(r, "failed to get reference", {"reference"})
    ELSE IF env = "worktree" THEN Err(r, "failed to get worktree", {"worktree"})
    ELSE LET headRef == RepoHead(r)
             co == Checkout(r, base, env)
             failed == IF co.err THEN {"checkout"} ELSE {}
         IN  IF headRef.err
             THEN Err(co.repo, "failed to get HEAD", failed \cup {"head"})
             ELSE IF env = "setref"
             THEN Err(co.repo, "failed to set reference", failed \cup {"setref"})
             ELSE Ok(SetReference(co.repo, branchName, headRef.hash),
                     "created local branch", failed)

\* Variant of CreateLocalBranchRun: the base branch is not looked up before
\* the checkout.
CreateLocalBranchRunNoLookup(r, base, branchName, env) ==
    IF env = "export" THEN Err(r, "failed to export repository", {"export"})
    ELSE IF env = "open" THEN Err(r, "failed to open repository", {"open"})
    ELSE IF env = "worktree" THEN Err(r, "failed to get worktree", {"worktree"})
    ELSE LET co == Checkout(r, base, env)
             failed == IF co.err THEN {"checkout"} ELSE {}
             headRef == RepoHead(co.repo)
         IN  IF headRef.err
             THEN Err(co.repo, "failed to get HEAD", failed \cup {"head"})
             ELSE IF env = "setref"
             THEN Err(co.repo, "failed to set reference", failed \cup {"setref"})
             ELSE Ok(SetReference(co.repo, branchName, headRef.hash),
                     "created local branch", failed)

\* Gh.CreateLocalBranch(branchName), gh/dagger/main.go:61-108.
\* The error of wt.Checkout is assigned to err and overwritten by the next
\* statement (headRef, err := gitRepo.Head()) before it is looked at.
CreateLocalBranchRun(r, base, branchName, env) ==
    IF env = "export" THEN Err(r, "failed to export repository", {"export"})
    ELSE IF env = "open" THEN Err(r, "failed to open repository", {"open"})
    ELSE IF Reference(r, base).err
         THEN Err(r, "failed to get reference", {"reference"})
    ELSE IF env = "worktree" THEN Err(r, "failed to get worktree", {"worktree"})
    ELSE LET co == Checkout(r, base, env)
             failed == IF co.err THEN {"checkout"} ELSE {}
             headRef == RepoHead(co.repo)
         IN  IF headRef.err
             THEN Err(co.repo, "failed to get HEAD", failed \cup {"head"})
             ELSE IF env = "setref"
             THEN Err(co.repo, "failed to set reference", failed \cup {"setref"})
             ELSE Ok(SetReference(co.repo, branchName, headRef.hash),
                     "created local branch", failed)

\* Variant of CommitChangesInNewBranchRun: a failure of staging or of the
\* commit takes the reference write back.
CommitChangesInNewBranchRunRollback(r, branchName, env) ==
    IF env = "export" THEN Err(r, "failed to export repository", {"export"})
    ELSE IF env = "open" THEN Err(r, "failed to open repository", {"open"})
    ELSE LET headRef == RepoHead(r) IN
         IF headRef.err THEN Err(r, "failed to get HEAD", {"head"})
    ELSE IF env = "setref" THEN Err(r, "failed to set reference", {"setref"})
    ELSE LET r1 == SetReference(r, branchName, headRef.hash) IN
         IF env = "worktree" THEN Err(r1, "failed to get worktree", {"worktree"})
    ELSE LET ad == Add(r1, env) IN
         IF ad.err THEN Err(r, "failed to add changes", {"add"})
    ELSE LET cm == Commit(ad.repo, env) IN
         IF cm.err THEN Err(r, "failed to commit changes", {"commit"})
         ELSE [repo |-> cm.repo, ok |-> TRUE,
               msg |-> "successfully committed changes",
               failed |-> {}, commit |-> cm.hash]

\* Gh.CommitChangesInNewBranch(commitTitle, branchName), gh/dagger/main.go:110-169.
CommitChangesInNewBranchRun(r, branchName, env) ==
    IF env = "export" THEN Err(r, "failed to export repository", {"export"})
    ELSE IF env = "open" THEN Err(r, "failed to open repository", {"open"})
    ELSE LET headRef == RepoHead(r) IN
         IF headRef.err THEN Err(r, "failed to get HEAD", {"head"})
    ELSE IF env = "setref" THEN Err(r, "failed to set reference", {"setref"})
    ELSE LET r1 == SetReference(r, branchName, headRef.hash) IN
         IF env = "worktree" THEN Err(r1, "failed to get worktree", {"worktree"})
    ELSE LET ad == Add(r1, env) IN
         IF ad.err THEN Err(ad.repo, "failed to add changes", {"add"})
    ELSE LET cm == Commit(ad.repo, env) IN
         IF cm.err THEN Err(cm.repo, "failed to commit changes", {"commit"})
         ELSE [repo |-> cm.repo, ok |-> TRUE,
               msg |-> "successfully committed changes",
               failed |-> {}, commit |-> cm.hash]

(***************************************************************************)
(* The repositories a caller can hand to the module: one commit, or two    *)
(* with the second on top of the first, any set of branches on them, HEAD  *)
(* on a branch (that may not exist yet) or detached, any index and working *)
(* copy.                                                                   *)
(***************************************************************************)
RootCommit == (1 :> [parent |-> NoHash, tree |-> 0])
InitCommits == RootCommit @@ (2 :> [parent |-> 1, tree |-> 1])
InitStores == {RootCommit, InitCommits}

PartialFns(S, T) == UNION {[D -> T] : D \in SUBSET S}

Heads(cs) == {SymRef(b) : b \in Branches} \cup {HashRef(h) : h \in DOMAIN cs}

\* last: op, branch: the operation and its branchName argument; ok, msg: what
\* it returned; failed: the library calls that failed in it; commit: the
\* commit it created; before, base, ref: the hashes HEAD, the base branch and
\* refs/heads/<branch> resolved to when it was called; again: the operation
\* before it was the same operation with the same argument, and succeeded.
NoCall == [op |-> "none", branch |-> "", ok |-> FALSE, msg |-> "",
           failed |-> {}, commit |-> NoHash, before |-> NoHash, base |-> NoHash,
           ref |-> NoHash, again |-> FALSE]

InitGit ==
    /\ \E cs \in InitStores :
          repo \in [head : Heads(cs), refs : PartialFns(Branches, DOMAIN cs),
                    commits : {cs}, idx : Trees, wt : Trees]
    /\ BaseBranch \in Branches
    /\ broken \in EnvSteps \cup {"none"}
    /\ last = NoCall

\* The call record of an operation that ran on repository r.
Call(op, branchName, r, res) ==
    [op |-> op, branch |-> branchName, ok |-> res.ok, msg |-> res.msg,
     failed |-> res.failed, commit |-> res.commit, before |-> RepoHead(r).hash,
     base |-> Reference(r, BaseBranch).hash,
     ref |-> Reference(r, branchName).hash,
     again |-> last.op = op /\ last.branch = branchName /\ last.ok]

CreateLocalBranch(branchName) ==
    LET res == CreateLocalBranchRun(repo, BaseBranch, branchName, broken) IN
    /\ repo' = res.repo
    /\ last' = Call("CreateLocalBranch", branchName, repo, res)
    /\ UNCHANGED <<BaseBranch, broken>>

CommitChangesInNewBranch(branchName) ==
    LET res == CommitChangesInNewBranchRun(repo, branchName, broken) IN
    /\ NewHash(repo) \in Hashes
    /\ repo' = res.repo
    /\ last' = Call("CommitChangesInNewBranch", branchName, repo, res)
    /\ UNCHANGED <<BaseBranch, broken>>

\* Between two calls the caller edits files of the working copy.
EditWorktree(t) ==
    /\ t # repo.wt
    /\ repo' = [repo EXCEPT !.wt = t]
    /\ last' = [NoCall EXCEPT !.op = "edit"]
    /\ UNCHANGED <<BaseBranch, broken>>

\* Between two calls the environment changes which library call fails.
SetEnvironment(e) ==
    /\ e # broken
    /\ broken' = e
    /\ last' = [NoCall EXCEPT !.op = "env"]
    /\ UNCHANGED <<repo, BaseBranch>>

(***************************************************************************)
(* Istio: semantic versions.  A version string is a sequence of characters;*)
(* semver.NewVersion accepts v?MAJOR(.MINOR)?(.PATCH)? of decimal numbers  *)
(* (pre-release and build suffixes need characters outside Chars) and      *)
(* reads a missing minor or patch as 0.                                    *)
(***************************************************************************)
Chars == {"0", "1", ".", "v"}
Digits == {"0", "1"}
VersionStrings == UNION {[1 .. n -> Chars] : n \in 0 .. MaxVerLen}

DigitValue(c) == IF c = "1" THEN 1 ELSE 0

\* strconv.ParseInt of a run of digits.
RECURSIVE Number(_)
Number(s) ==
    IF s = <<>> THEN 0
    ELSE 10 * Number(SubSeq(s, 1, Len(s) - 1)) + DigitValue(s[Len(s)])

\* The dot-separated parts of s.
RECURSIVE Split(_)
Split(s) ==
    IF \A i \in 1 .. Len(s) : s[i] # "." THEN <<s>>
    ELSE LET i == CHOOSE k \in 1 .. Len(s) :
                      s[k] = "." /\ \A j \in 1 .. k - 1 : s[j] # "."
         IN  <<SubSeq(s, 1, i - 1)>> \o Split(SubSeq(s, i + 1, Len(s)))

IsNumber(p) == Len(p) > 0 /\ \A i \in 1 .. Len(p) : p[i] \in Digits

\* semver.NewVersion(s): err when s does not match the version pattern.
NewVersion(s) ==
    LET body == IF s # <<>> /\ s[1] = "v" THEN Tail(s) ELSE s
        parts == Split(body)
        part(i) == IF i <= Len(parts) THEN Number(parts[i]) ELSE 0
    IN  IF Len(parts) <= 3 /\ \A i \in 1 .. Len(parts) : IsNumber(parts[i])
        THEN [err |-> FALSE, major |-> part(1), minor |-> part(2), patch |-> part(3)]
        ELSE [err |-> TRUE, major |-> 0, minor |-> 0, patch |-> 0]

CompareInt(a, b) == IF a < b THEN -1 ELSE IF a > b THEN 1 ELSE 0

\* (*semver.Version).Compare: -1, 0 or 1, by major, then minor, then patch.
Compare(v, o) ==
    IF CompareInt(v.major, o.major) # 0 THEN CompareInt(v.major, o.major)
    ELSE IF CompareInt(v.minor, o.minor) # 0 THEN CompareInt(v.minor, o.minor)
    ELSE CompareInt(v.patch, o.patch)

\* Variant of IsNewerVersion: true when the comparison is not negative.
IsNewerVersionGE(latest, local) ==
    LET latestVersion == NewVersion(latest)
        localVersion == NewVersion(local)
    IN  IF latestVersion.err
        THEN [value |-> FALSE, err |-> "failed to parse latest version"]
        ELSE IF localVersion.err
        THEN [value |-> FALSE, err |-> "failed to parse local version"]
        ELSE IF Compare(latestVersion, localVersion) >= 0
        THEN [value |-> TRUE, err |-> ""]
        ELSE [value |-> FALSE, err |-> ""]

\* Istio.IsNewerVersion(): (bool, error).
IsNewerVersion(latest, local) ==
    LET latestVersion == NewVersion(latest)
        localVersion == NewVersion(local)
    IN  IF latestVersion.err
        THEN [value |-> FALSE, err |-> "failed to parse latest version"]
        ELSE IF localVersion.err
        THEN [value |-> FALSE, err |-> "failed to parse local version"]
        ELSE IF Compare(latestVersion, localVersion) > 0
        THEN [value |-> TRUE, err |-> ""]
        ELSE [value |-> FALSE, err |-> ""]

\* Istio.CreateUpdatePR(): string (github/dagger/main.go).
CreateUpdatePR(latest, local) ==
    LET r == IsNewerVersion(latest, local) IN
    IF r.err # "" THEN "Failed to check if newer version"
    ELSE IF r.value THEN "Create PR"
    ELSE "No PR needed"

NoVerCall == [op |-> "none", value |-> FALSE, err |-> "", text |-> ""]

IsNewerVersionCall ==
    LET r == IsNewerVersion(LatestVersion, LocalVersion) IN
    /\ verResult' = [op |-> "IsNewerVersion", value |-> r.value, err |-> r.err,
                     text |-> ""]
    /\ UNCHANGED <<LatestVersion, LocalVersion>>

CreateUpdatePRCall ==
    /\ verResult' = [op |-> "CreateUpdatePR", value |-> FALSE, err |-> "",
                     text |-> CreateUpdatePR(LatestVersion, LocalVersion)]
    /\ UNCHANGED <<LatestVersion, LocalVersion>>

InitVer ==
    /\ LatestVersion \in VersionStrings
    /\ LocalVersion \in VersionStrings
    /\ verResult = NoVerCall

(***************************************************************************)
(* Istio: the ConfigMap document (istio/dagger/main.go).  A YAML document  *)
(* is a function from the paths of its scalar fields to their values; a    *)
(* field the document does not have is not in the domain.                  *)
(***************************************************************************)
\* The fields IstioVersionCm declares.
StructFields == {"apiVersion", "kind", "metadata.name", "metadata.namespace",
                 "metadata.annotations.kustomize.toolkit.fluxcd.io/ssa",
                 "data.version"}

\* The fields a ConfigMap document of the clusters can hold: those of the
\* struct and a label under metadata.
DocFields == StructFields \cup {"metadata.labels.app"}

\* The fields of a document other than data.version.
HeaderFields(doc) == (DOMAIN doc) \ {"data.version"}

\* The documents handed to New: apiVersion, kind, metadata.name,
\* metadata.namespace and data.version are there, the annotation and the
\* label may be.
FieldValue(f, version) ==
    CASE f = "apiVersion" -> "v1"
      [] f = "kind" -> "ConfigMap"
      [] f = "metadata.name" -> "istio-version"
      [] f = "metadata.namespace" -> "flux-system"
      [] f = "metadata.annotations.kustomize.toolkit.fluxcd.io/ssa" -> "merge"
      [] f = "metadata.labels.app" -> "istio"
      [] OTHER -> version

Documents(version) ==
    {[f \in D |-> FieldValue(f, version)] :
        D \in {D \in SUBSET DocFields :
                  {"apiVersion", "kind", "metadata.name", "metadata.namespace",
                   "data.version"} \subseteq D}}

\* yaml.Unmarshal([]byte(content), iVersion) into a zero IstioVersionCm: the
\* declared fields the document has are set, the others keep the zero value,
\* and what the document holds outside the struct is not kept.
Unmarshal(doc) ==
    [f \in StructFields |-> IF f \in DOMAIN doc THEN doc[f] ELSE ""]

\* yaml.Marshal(iVersion): every declared field is written (no omitempty).
Marshal(v) == [f \in StructFields |-> v[f]]

NoDoc == <<>>

\* Istio.ReturnUpdatedCm(): (string, error), on ConfigMap cm; readable says
\* whether m.ConfigMap.Contents succeeds.
ReturnUpdatedCmRun(cm, latest, local, readable) ==
    LET isNewerVersion == IsNewerVersion(latest, local) IN
    IF isNewerVersion.err # ""
    THEN [cm |-> cm, kind |-> "error",
          text |-> <<"failed to check if newer version">>, doc |-> NoDoc]
    ELSE IF ~isNewerVersion.value
    THEN [cm |-> cm, kind |-> "message",
          text |-> <<"No update needed. Latest version is ", latest>>,
          doc |-> NoDoc]
    ELSE IF ~readable
    THEN [cm |-> cm, kind |-> "error",
          text |-> <<"failed to read file contents">>, doc |-> NoDoc]
    ELSE LET iVersion == [Unmarshal(cm) EXCEPT !["data.version"] = latest]
             newContent == Marshal(iVersion)
         IN  [cm |-> newContent, kind |-> "document", text |-> <<>>,
              doc |-> newContent]

\* cmResult: kind, text, doc: what the call returned (a message, a document
\* or an error); before, latest, local: the ConfigMap and the versions of the
\* module when it was called; newer: what the comparison said.
NoCmCall == [op |-> "none", kind |-> "none", text |-> <<>>, doc |-> NoDoc,
             before |-> NoDoc, latest |-> <<>>, local |-> <<>>,
             newer |-> [value |-> FALSE, err |-> ""]]

ReturnUpdatedCm(readable) ==
    LET r == ReturnUpdatedCmRun(ConfigMap, LatestVersion, LocalVersion, readable)
    IN  /\ ConfigMap' = r.cm
        /\ cmResult' = [op |-> "ReturnUpdatedCm", kind |-> r.kind,
                        text |-> r.text, doc |-> r.doc, before |-> ConfigMap,
                        latest |-> LatestVersion, local |-> LocalVersion,
                        newer |-> IsNewerVersion(LatestVersion, LocalVersion)]
        /\ UNCHANGED <<LatestVersion, LocalVersion>>

\* New: LocalVersion is data.version of the ConfigMap (setLocalVersion),
\* LatestVersion the tag of the latest release (setLatestVersion).
InitCm ==
    /\ LatestVersion \in VersionStrings
    /\ LocalVersion \in VersionStrings
    /\ ConfigMap \in Documents(LocalVersion)
    /\ verResult = NoVerCall
    /\ cmResult = NoCmCall

FixedCm ==
    /\ ConfigMap = [f \in StructFields |-> FieldValue(f, <<"1">>)]
    /\ cmResult = NoCmCall

(***************************************************************************)
(* Gh: the GitHub REST API behind go-github.                               *)
(*   branches : the branches of the remote repository                      *)
(*   entries  : what the contents endpoint holds at each path              *)
(*   token    : whether m.Token.Plaintext succeeds                         *)
(*   net      : whether requests reach the API (a transport failure makes  *)
(*              the client return a nil response with the error)           *)
(*   prs      : the open pull requests, <<head, base>>                     *)
(***************************************************************************)
Paths == {"README.md", "docs"}
\* absent: 404; dir: an array of entries; file: an entry with its content;
\* nocontent: an entry with no content field (a submodule).
EntryKinds == {"absent", "dir", "file", "nocontent"}
\* The base64 text the API returns for the file at path p.
ContentOf(p) == <<"base64", p>>
NoContent == <<>>

ApiResult(kind, msg, content, body, called) ==
    [kind |-> kind, msg |-> msg, content |-> content, body |-> body,
     called |-> called]

\* client.Git.GetRef(ctx, owner, repo, "refs/heads/" + branch)
GetRef(rm, branch) ==
    IF rm.net /\ branch \in rm.branches THEN [err |-> FALSE] ELSE [err |-> TRUE]

\* client.Repositories.GetContents(ctx, owner, repo, filePath, opts):
\* file: the file entry or nil; content: its Content field or nil.
GetContents(rm, path) ==
    LET k == rm.entries[path] IN
    IF ~rm.net \/ k = "absent"
    THEN [err |-> TRUE, file |-> FALSE, content |-> FALSE, text |-> NoContent]
    ELSE IF k = "dir"
    THEN [err |-> FALSE, file |-> FALSE, content |-> FALSE, text |-> NoContent]
    ELSE IF k = "nocontent"
    THEN [err |-> FALSE, file |-> TRUE, content |-> FALSE, text |-> NoContent]
    ELSE [err |-> FALSE, file |-> TRUE, content |-> TRUE, text |-> ContentOf(path)]

\* Gh.GetFileFromRemote(branch, filePath), gh/dagger/main.go:174-210.
\* *fileContent.Content dereferences the Content field without a nil check.
GetFileFromRemoteRun(rm, branch, filePath) ==
    IF ~rm.token
    THEN ApiResult("err", "failed to get token", NoContent, "", <<>>)
    ELSE IF GetRef(rm, branch).err
    THEN ApiResult("err", "failed to get ref", NoContent, "", <<"GetRef">>)
    ELSE LET fc == GetContents(rm, filePath)
             called == <<"GetRef", "GetContents">>
         IN  IF fc.err
             THEN ApiResult("err", "failed to get contents", NoContent, "", called)
             ELSE IF ~fc.file
             THEN ApiResult("err", "fileContent is nil", NoContent, "", called)
             ELSE IF ~fc.content
             THEN ApiResult("panic", "nil pointer dereference", NoContent, "", called)
             ELSE ApiResult("ok", "", fc.text, "", called)

\* client.PullRequests.Create(ctx, owner, repo, newPR): the API refuses a
\* head or base that is no branch, and a second pull request for the same
\* pair.  rsp: whether a response came with the error.
Create(rm, head, base) ==
    IF ~rm.net THEN [err |-> TRUE, rsp |-> FALSE, body |-> ""]
    ELSE IF head \notin rm.branches \/ base \notin rm.branches
              \/ head = base \/ <<head, base>> \in rm.prs
    THEN [err |-> TRUE, rsp |-> TRUE, body |-> "Validation Failed"]
    ELSE [err |-> FALSE, rsp |-> TRUE, body |-> "Created"]

\* Gh.CreatePullRequest(title, newBranch, baseBranch), gh/dagger/main.go:215-249.
\* The error message formats rsp.Body, which dereferences rsp.
CreatePullRequestRun(rm, mBase, newBranch, baseBranch) ==
    IF ~rm.token
    THEN ApiResult("err", "failed to get token", NoContent, "", <<>>)
    ELSE LET base == IF baseBranch = "" THEN mBase ELSE baseBranch
             cr == Create(rm, newBranch, base)
         IN  IF cr.err
             THEN IF cr.rsp
                  THEN ApiResult("err", "failed to create pull request with error",
                                 NoContent, cr.body, <<"Create">>)
                  ELSE ApiResult("panic", "nil pointer dereference",
                                 NoContent, "", <<"Create">>)
             ELSE ApiResult("ok", "successfully created the pull request",
                            NoContent, "", <<"Create">>)

NoApiCall == [op |-> "none", branch |-> "", path |-> "", head |-> "", base |-> "",
              kind |-> "none", msg |-> "", content |-> NoContent, body |-> "",
              called |-> <<>>]

ApiCall(op, branch, path, head, base, res) ==
    [op |-> op, branch |-> branch, path |-> path, head |-> head, base |-> base,
     kind |-> res.kind, msg |-> res.msg, content |-> res.content,
     body |-> res.body, called |-> res.called]

GetFileFromRemote(branch, filePath) ==
    /\ apiResult' = ApiCall("GetFileFromRemote", branch, filePath, "", "",
                            GetFileFromRemoteRun(remote, branch, filePath))
    /\ UNCHANGED remote

CreatePullRequest(newBranch, baseBranch) ==
    LET res == CreatePullRequestRun(remote, BaseBranch, newBranch, baseBranch)
        base == IF baseBranch = "" THEN BaseBranch ELSE baseBranch
    IN  /\ apiResult' = ApiCall("CreatePullRequest", "", "", newBranch, base, res)
        /\ remote' = IF res.kind = "ok"
                     THEN [remote EXCEPT !.prs = @ \cup {<<newBranch, base>>}]
                     ELSE remote

InitApi ==
    /\ remote \in [branches : SUBSET Branches, entries : [Paths -> EntryKinds],
                   token : BOOLEAN, net : BOOLEAN, prs : {{}}]
    /\ apiResult = NoApiCall

(***************************************************************************)
(* Gh.RunGit and the owner/repo extraction (gh/dagger/main.go).  A URL is  *)
(* a sequence of tokens: "/" , ":" and ".git" stand for themselves, every  *)
(* other token is a run of characters without "/" or ":".                  *)
(*   gitConfig : exportable, loadable: whether .git/config can be exported *)
(*               and parsed; url: the url key of its last section that has *)
(*               one, <<>> when no section has                             *)
(***************************************************************************)
MaxSegments == 2

Names == {"adore-me", "daggerverse"}

\* strings.Join(ns, "/").
RECURSIVE Join(_)
Join(ns) ==
    IF ns = <<>> THEN <<>>
    ELSE IF Len(ns) = 1 THEN <<ns[1]>>
    ELSE <<ns[1], "/">> \o Join(Tail(ns))

Prefixes == {<<>>, <<"https:", "/", "/", "github.com", "/">>,
             <<"git@github.com", ":">>, <<"git@github.com">>}

Urls ==
    {pre \o Join(ns) \o suf :
        pre \in Prefixes,
        ns \in UNION {[1 .. n -> Names] : n \in 0 .. MaxSegments},
        suf \in {<<>>, <<".git">>}}

\* strings.HasPrefix(url, "git@").
HasPrefixGit(url) == url # <<>> /\ url[1] = "git@github.com"

\* strings.TrimSuffix(url, ".git").
TrimSuffixGit(url) ==
    IF url # <<>> /\ url[Len(url)] = ".git"
    THEN SubSeq(url, 1, Len(url) - 1) ELSE url

\* strings.Split(s, sep): the parts of s between the separators, one more
\* than there are separators.
RECURSIVE StringsSplit(_, _)
StringsSplit(s, sep) ==
    IF s = <<>> THEN << <<>> >>
    ELSE LET rest == StringsSplit(Tail(s), sep) IN
         IF s[1] = sep THEN << <<>> >> \o rest
         ELSE << <<s[1]>> \o rest[1] >> \o Tail(rest)

\* What indexing past the end of a slice gives: a run-time panic.
Panic == [owner |-> <<>>, repo |-> <<>>, panic |-> TRUE]

\* extractRepoOwnerAndNameSSH(url); the slice indices are those of the code,
\* plus one.
extractRepoOwnerAndNameSSH(url) ==
    LET parts == StringsSplit(TrimSuffixGit(url), ":") IN
    IF Len(parts) < 2 THEN Panic
    ELSE LET parts2 == StringsSplit(parts[2], "/") IN
         IF Len(parts2) < 2 THEN Panic
         ELSE [owner |-> parts2[1], repo |-> parts2[2], panic |-> FALSE]

\* extractRepoOwnerAndNameHTTPS(url).
extractRepoOwnerAndNameHTTPS(url) ==
    LET parts == StringsSplit(TrimSuffixGit(url), "/") IN
    IF Len(parts) < 2 THEN Panic
    ELSE [owner |-> parts[Len(parts) - 1], repo |-> parts[Len(parts)],
          panic |-> FALSE]

\* Gh.extractRepoOwnerAndName(ctx): (owner, repo, err).
extractRepoOwnerAndName(cfg) ==
    IF ~cfg.exportable
    THEN [owner |-> <<>>, repo |-> <<>>, panic |-> FALSE,
          err |-> "failed to export git config"]
    ELSE IF ~cfg.loadable
    THEN [owner |-> <<>>, repo |-> <<>>, panic |-> FALSE,
          err |-> "failed to load git config"]
    ELSE LET r == IF HasPrefixGit(cfg.url)
                  THEN extractRepoOwnerAndNameSSH(cfg.url)
                  ELSE extractRepoOwnerAndNameHTTPS(cfg.url)
         IN  [owner |-> r.owner, repo |-> r.repo, panic |-> r.panic, err |-> ""]

\* The WithExec steps of RunGit, in the order of the chain.
ExecSteps == <<"user.email", "user.name", "set-url", "cmd">>

\* Sync(ctx) on the chain when step failing exits non-zero (0: none does):
\* the steps run in order up to the failing one.
Sync(failing) ==
    IF failing = 0 THEN ExecSteps ELSE SubSeq(ExecSteps, 1, failing)

\* Gh.RunGit(ctx, cmd, version, userEmail, userName): (*Container, error).
\* steps: what ran, in order; kind: a container, an error or a panic came out.
RunGitRun(cfg, tokenOk, failing) ==
    IF ~tokenOk
    THEN [steps |-> <<"token">>, kind |-> "error",
          msg |-> "failed to get auth token", owner |-> <<>>, repo |-> <<>>]
    ELSE LET e == extractRepoOwnerAndName(cfg) IN
         IF e.panic
         THEN [steps |-> <<"token", "extract">>, kind |-> "panic",
               msg |-> "index out of range", owner |-> <<>>, repo |-> <<>>]
         ELSE IF e.err # ""
         THEN [steps |-> <<"token", "extract">>, kind |-> "error",
               msg |-> "failed to extract repo owner and name",
               owner |-> <<>>, repo |-> <<>>]
         ELSE [steps |-> <<"token", "extract">> \o Sync(failing),
               kind |-> IF failing = 0 THEN "container" ELSE "error",
               msg |-> IF failing = 0 THEN "" ELSE "failed to run git command",
               owner |-> e.owner, repo |-> e.repo]

\* runResult: what the call did and returned; tokenOk, extracted: whether
\* m.Token.Plaintext succeeded and whether an owner and a repository name
\* came out of .git/config.
NoRun == [op |-> "none", steps |-> <<>>, kind |-> "none", msg |-> "",
          owner |-> <<>>, repo |-> <<>>, tokenOk |-> FALSE, extracted |-> FALSE]

RunGit(tokenOk, failing) ==
    LET r == RunGitRun(gitConfig, tokenOk, failing)
        e == extractRepoOwnerAndName(gitConfig)
    IN  /\ runResult' = [op |-> "RunGit", steps |-> r.steps, kind |-> r.kind,
                         msg |-> r.msg, owner |-> r.owner, repo |-> r.repo,
                         tokenOk |-> tokenOk,
                         extracted |-> e.err = "" /\ ~e.panic]
        /\ UNCHANGED gitConfig

InitRun ==
    /\ gitConfig \in [exportable : BOOLEAN, loadable : BOOLEAN, url : Urls]
    /\ runResult = NoRun

FixedRun ==
    /\ gitConfig = [exportable |-> TRUE, loadable |-> TRUE,
                    url |-> <<"git@github.com", ":", "adore-me", "/",
                              "daggerverse", ".git">>]
    /\ runResult = NoRun

(***************************************************************************)
(* Concurrent calls.  The module takes no lock on "./" + m.Repo: two calls *)
(* on the same export path run their library calls interleaved, each call  *)
(* one step per library call that reads or writes the repository.  Export, *)
(* PlainOpen and Worktree do not read HEAD or the references and are taken *)
(* with the step that follows them.  Each caller has its own module        *)
(* instance (its own BaseBranch) and makes one call.                       *)
(*   pc     : the library call the caller is about to make                 *)
(*   head   : the hash its gitRepo.Head() returned (headRef.Hash())        *)
(*   baseAt : the hash the base branch had when it was looked up           *)
(*   onBase : whether HEAD was on its base branch after its checkout       *)
(*   raced  : whether another call changed what HEAD resolves to between   *)
(*            its checkout and its reading of HEAD                         *)
(***************************************************************************)
Procs == {1, 2}

IdleCall == [pc |-> "idle", op |-> "", base |-> "", branch |-> "",
             head |-> NoHash, baseAt |-> NoHash, onBase |-> FALSE,
             raced |-> FALSE, ok |-> FALSE, msg |-> ""]

Running(p) == calls[p].pc \notin {"idle", "done"}

Finish(c, ok, msg) == [c EXCEPT !.pc = "done", !.ok = ok, !.msg = msg]

\* The calls after caller p made a step that left it as c and the repository
\* as r: a call that waits between its checkout and its reading of HEAD has
\* been raced when HEAD resolves to another hash than before the step.
Stepped(p, c, r) ==
    [q \in Procs |->
        IF q = p THEN c
        ELSE IF calls[q].pc = "head" /\ RepoHead(r) # RepoHead(repo)
             THEN [calls[q] EXCEPT !.raced = TRUE]
             ELSE calls[q]]

\* Variant of Begin: the caller does not wait for the calls in flight.
BeginNoWait(p, op, base, branchName) ==
    /\ calls[p].pc = "idle"
    /\ LET c == [IdleCall EXCEPT !.op = op, !.base = base, !.branch = branchName]
       IN  calls' = Stepped(p,
               IF broken = "export" THEN Finish(c, FALSE, "failed to export repository")
               ELSE IF broken = "open" THEN Finish(c, FALSE, "failed to open repository")
               ELSE [c EXCEPT !.pc = IF op = "CreateLocalBranch"
                                     THEN "reference" ELSE "chead"],
               repo)
    /\ UNCHANGED <<repo, serialized>>

\* A caller starts CreateLocalBranch(branchName) or
\* CommitChangesInNewBranch(commitTitle, branchName): Export and PlainOpen.
\* Callers that serialize wait until no other call is in flight.
Begin(p, op, base, branchName) ==
    /\ calls[p].pc = "idle"
    /\ serialized => \A q \in Procs : ~Running(q)
    /\ LET c == [IdleCall EXCEPT !.op = op, !.base = base, !.branch = branchName]
       IN  calls' = Stepped(p,
               IF broken = "export" THEN Finish(c, FALSE, "failed to export repository")
               ELSE IF broken = "open" THEN Finish(c, FALSE, "failed to open repository")
               ELSE [c EXCEPT !.pc = IF op = "CreateLocalBranch"
                                     THEN "reference" ELSE "chead"],
               repo)
    /\ UNCHANGED <<repo, serialized>>

\* CreateLocalBranch: gitRepo.Reference(base), then gitRepo.Worktree().
StepReference(p) ==
    LET c == calls[p]
        ref == Reference(repo, c.base)
    IN  /\ c.pc = "reference"
        /\ calls' = Stepped(p,
               IF ref.err THEN Finish(c, FALSE, "failed to get reference")
               ELSE IF broken = "worktree"
               THEN Finish(c, FALSE, "failed to get worktree")
               ELSE [c EXCEPT !.pc = "checkout", !.baseAt = ref.hash],
               repo)
        /\ UNCHANGED <<repo, serialized>>

\* CreateLocalBranch: wt.Checkout(base); its error is dropped.
StepCheckout(p) ==
    LET c == calls[p]
        co == Checkout(repo, c.base, broken)
    IN  /\ c.pc = "checkout"
        /\ repo' = co.repo
        /\ calls' = Stepped(p, [c EXCEPT !.pc = "head",
                                          !.onBase = co.repo.head = SymRef(c.base)],
                             co.repo)
        /\ UNCHANGED serialized

\* CreateLocalBranch: gitRepo.Head().
StepHead(p) ==
    LET c == calls[p]
        headRef == RepoHead(repo)
    IN  /\ c.pc = "head"
        /\ calls' = Stepped(p,
               IF headRef.err THEN Finish(c, FALSE, "failed to get HEAD")
               ELSE [c EXCEPT !.pc = "setref", !.head = headRef.hash],
               repo)
        /\ UNCHANGED <<repo, serialized>>

\* CreateLocalBranch: gitRepo.Storer.SetReference(branchName, headRef.Hash()).
StepSetReference(p) ==
    LET c == calls[p]
        r == IF broken = "setref" THEN repo
             ELSE SetReference(repo, c.branch, c.head)
    IN  /\ c.pc = "setref"
        /\ repo' = r
        /\ calls' = Stepped(p,
               IF broken = "setref" THEN Finish(c, FALSE, "failed to set reference")
               ELSE Finish(c, TRUE, "created local branch"),
               r)
        /\ UNCHANGED serialized

\* CommitChangesInNewBranch: gitRepo.Head().
StepCommitHead(p) ==
    LET c == calls[p]
        headRef == RepoHead(repo)
    IN  /\ c.pc = "chead"
        /\ calls' = Stepped(p,
               IF headRef.err THEN Finish(c, FALSE, "failed to get HEAD")
               ELSE [c EXCEPT !.pc = "csetref", !.head = headRef.hash],
               repo)
        /\ UNCHANGED <<repo, serialized>>

\* CommitChangesInNewBranch: SetReference(branchName, headRef.Hash()), then
\* gitRepo.Worktree().
StepCommitSetReference(p) ==
    LET c == calls[p]
        r == IF broken = "setref" THEN repo
             ELSE SetReference(repo, c.branch, c.head)
    IN  /\ c.pc = "csetref"
        /\ repo' = r
        /\ calls' = Stepped(p,
               IF broken = "setref" THEN Finish(c, FALSE, "failed to set reference")
               ELSE IF broken = "worktree"
               THEN Finish(c, FALSE, "failed to get worktree")
               ELSE [c EXCEPT !.pc = "add"],
               r)
        /\ UNCHANGED serialized

\* CommitChangesInNewBranch: wt.Add(".").
StepAdd(p) ==
    LET c == calls[p]
        ad == Add(repo, broken)
    IN  /\ c.pc = "add"
        /\ repo' = ad.repo
        /\ calls' = Stepped(p,
               IF ad.err THEN Finish(c, FALSE, "failed to add changes")
               ELSE [c EXCEPT !.pc = "commit"],
               ad.repo)
        /\ UNCHANGED serialized

\* CommitChangesInNewBranch: wt.Commit(commitTitle, cOpts).
StepCommit(p) ==
    LET c == calls[p]
        cm == Commit(repo, broken)
    IN  /\ c.pc = "commit"
        /\ NewHash(repo) \in Hashes
        /\ repo' = cm.repo
        /\ calls' = Stepped(p,
               IF cm.err THEN Finish(c, FALSE, "failed to commit changes")
               ELSE Finish(c, TRUE, "successfully committed changes"),
               cm.repo)
        /\ UNCHANGED serialized

InitConc ==
    /\ calls = [p \in Procs |-> IdleCall]
    /\ serialized \in BOOLEAN

FixedConc ==
    /\ calls = [p \in Procs |-> IdleCall]
    /\ serialized = TRUE

(***************************************************************************)
(* Specifications.  Spec: the local repository operations, one call at a   *)
(* time.  SpecVersion: the Istio version module.  SpecRemote: the GitHub   *)
(* API operations.  SpecConc: two calls on one exported repository, step   *)
(* by step.  Each starts the other parts in one fixed state and leaves     *)
(* them alone.                                                             *)
(***************************************************************************)
FixedGit ==
    /\ repo = [head |-> SymRef("main"), refs |-> ("main" :> 1),
               commits |-> InitCommits, idx |-> 0, wt |-> 0]
    /\ broken = "none"
    /\ last = NoCall
FixedVer ==
    /\ LatestVersion = <<"1">>
    /\ LocalVersion = <<"1">>
    /\ verResult = NoVerCall
FixedApi ==
    /\ remote = [branches |-> {"main"}, entries |-> [p \in Paths |-> "absent"],
                 token |-> TRUE, net |-> TRUE, prs |-> {}]
    /\ apiResult = NoApiCall

\* What the actions of each specification leave alone.
FrameGit == <<verVars, apiVars, concVars, cmVars, runVars>>
FrameVer == <<gitVars, apiVars, concVars, cmVars, runVars>>
FrameApi == <<gitVars, verVars, concVars, cmVars, runVars>>
FrameConc == <<BaseBranch, broken, last, verVars, apiVars, cmVars, runVars>>
FrameCm == <<gitVars, verResult, apiVars, concVars, runVars>>
FrameRun == <<gitVars, verVars, apiVars, concVars, cmVars>>

Init == InitGit /\ FixedVer /\ FixedApi /\ FixedConc /\ FixedCm /\ FixedRun

Next ==
    \/ \E b \in Branches : CreateLocalBranch(b) /\ UNCHANGED FrameGit
    \/ \E b \in Branches : CommitChangesInNewBranch(b) /\ UNCHANGED FrameGit
    \/ \E t \in Trees : EditWorktree(t) /\ UNCHANGED FrameGit
    \/ \E e \in EnvSteps \cup {"none"} : SetEnvironment(e) /\ UNCHANGED FrameGit

Spec == Init /\ [][Next]_vars

InitVersion ==
    /\ InitVer /\ FixedGit /\ BaseBranch = "main"
    /\ FixedApi /\ FixedConc /\ FixedCm /\ FixedRun

NextVersion ==
    \/ IsNewerVersionCall /\ UNCHANGED FrameVer
    \/ CreateUpdatePRCall /\ UNCHANGED FrameVer

SpecVersion == InitVersion /\ [][NextVersion]_vars

InitRemote ==
    /\ InitApi /\ FixedGit /\ BaseBranch \in Branches
    /\ FixedVer /\ FixedConc /\ FixedCm /\ FixedRun

NextRemote ==
    \/ \E b \in Branches, p \in Paths :
          GetFileFromRemote(b, p) /\ UNCHANGED FrameApi
    \/ \E h \in Branches, b \in Branches \cup {""} :
          CreatePullRequest(h, b) /\ UNCHANGED FrameApi

SpecRemote == InitRemote /\ [][NextRemote]_vars

\* Two callers on a repository with both branches, HEAD on one of them, any
\* index and working copy; the environment lets every call through or makes
\* the checkout fail.
InitConcurrent ==
    /\ repo \in [head : {SymRef(b) : b \in Branches},
                 refs : [Branches -> DOMAIN InitCommits],
                 commits : {InitCommits}, idx : Trees, wt : Trees]
    /\ BaseBranch = "main"
    /\ broken \in {"none", "checkout"}
    /\ last = NoCall
    /\ InitConc /\ FixedVer /\ FixedApi /\ FixedCm /\ FixedRun

NextConc ==
    \/ \E p \in Procs, op \in {"CreateLocalBranch", "CommitChangesInNewBranch"},
          base \in Branches, b \in Branches :
          Begin(p, op, base, b) /\ UNCHANGED FrameConc
    \/ \E p \in Procs : StepReference(p) /\ UNCHANGED FrameConc
    \/ \E p \in Procs : StepCheckout(p) /\ UNCHANGED FrameConc
    \/ \E p \in Procs : StepHead(p) /\ UNCHANGED FrameConc
    \/ \E p \in Procs : StepSetReference(p) /\ UNCHANGED FrameConc
    \/ \E p \in Procs : StepCommitHead(p) /\ UNCHANGED FrameConc
    \/ \E p \in Procs : StepCommitSetReference(p) /\ UNCHANGED FrameConc
    \/ \E p \in Procs : StepAdd(p) /\ UNCHANGED FrameConc
    \/ \E p \in Procs : StepCommit(p) /\ UNCHANGED FrameConc

SpecConc == InitConcurrent /\ [][NextConc]_vars

InitConfigMap ==
    InitCm /\ FixedGit /\ BaseBranch = "main" /\ FixedApi /\ FixedConc /\ FixedRun

NextCm == \E readable \in BOOLEAN : ReturnUpdatedCm(readable) /\ UNCHANGED FrameCm

SpecCm == InitConfigMap /\ [][NextCm]_vars

InitRunGit ==
    /\ InitRun /\ FixedGit /\ BaseBranch = "main"
    /\ FixedVer /\ FixedApi /\ FixedConc /\ FixedCm

NextRunGit ==
    \E tokenOk \in BOOLEAN, failing \in 0 .. Len(ExecSteps) :
        RunGit(tokenOk, failing) /\ UNCHANGED FrameRun

SpecRunGit == InitRunGit /\ [][NextRunGit]_vars


(***************************************************************************)
(* Properties.                                                             *)
(***************************************************************************)
IsCreate == last.op = "CreateLocalBranch"
IsCommit == last.op = "CommitChangesInNewBranch"

\* C1: after a successful CreateLocalBranch(branchName), refs/heads/<branchName>
\* holds the hash the base branch held when the operation was called,
\* whatever branch HEAD was on, whether or not the checkout of the base
\* branch went through, and whether or not refs/heads/<branchName> existed.
C1_BranchAtBaseCommit ==
    (IsCreate /\ last.ok /\ repo.head.type = "sym") =>
        repo.refs[last.branch] = last.base

\* C2: CreateLocalBranch applied twice in a row with the same argument
\* succeeds the second time too and leaves refs/heads/<branchName> with the
\* hash the first application gave it.
C2_Idempotent ==
    (IsCreate /\ last.again) =>
        /\ last.ok
        /\ last.ref # NoHash
        /\ repo.refs[last.branch] = last.ref

\* A second application in a row has run, on a branch that is not the base
\* branch, in a repository whose HEAD was not at the base branch's commit.
C2_Witness ==
    /\ IsCreate /\ last.again /\ last.ok
    /\ last.branch # BaseBranch
    /\ "checkout" \in last.failed
    /\ last.before # last.base

\* A second application in a row has run after a checkout that succeeded.
C2_WitnessClean ==
    /\ IsCreate /\ last.again /\ last.ok
    /\ last.branch # BaseBranch
    /\ last.failed = {}

\* C3: the commit a successful CommitChangesInNewBranch creates has as its
\* parent the commit HEAD resolved to when the operation was called.
C3_ParentIsOldHead ==
    (IsCommit /\ last.ok) =>
        /\ last.commit \in DOMAIN repo.commits
        /\ last.before # NoHash
        /\ repo.commits[last.commit].parent = last.before

\* A commit has been created on top of a commit that is not the root
\* commit, filling the object store.
C3_Witness ==
    /\ IsCommit /\ last.ok
    /\ last.before \notin DOMAIN RootCommit
    /\ repo.commits[last.before].parent # NoHash
    /\ last.commit = MaxCommits

\* C4: after a successful CommitChangesInNewBranch(commitTitle, branchName),
\* refs/heads/<branchName> points at the commit the operation created, also
\* when HEAD is on another branch than branchName.
C4_BranchAtNewCommit ==
    (IsCommit /\ last.ok /\ repo.head.type = "sym") =>
        repo.refs[last.branch] = last.commit

\* C6: a library call that fails inside CreateLocalBranch or
\* CommitChangesInNewBranch makes the operation return an error.
C6_FailuresSurfaced ==
    ((IsCreate \/ IsCommit) /\ last.failed # {}) => ~last.ok

\* C7: when the base branch has no reference, CreateLocalBranch returns an
\* error (the reference-lookup error, once the repository could be opened)
\* and leaves HEAD, every reference, the index and the working copy as they
\* were.
C7_MissingBaseNoMutation ==
    [][(last'.op = "CreateLocalBranch" /\ BaseBranch \notin DOMAIN repo.refs) =>
          /\ ~last'.ok
          /\ repo' = repo
          /\ (broken \notin {"export", "open"} =>
                 last'.msg = "failed to get reference")]_vars

\* CreateLocalBranch has been called for a branch that did not exist, with a
\* base branch that has no reference, in an environment where nothing fails.
C7_Witness ==
    /\ IsCreate /\ ~last.ok
    /\ last.msg = "failed to get reference"
    /\ BaseBranch \notin DOMAIN repo.refs
    /\ last.branch \notin DOMAIN repo.refs
    /\ last.branch # BaseBranch
    /\ broken = "none"

\* latest is strictly greater than local in semantic-version order.
StrictlyNewer(latest, local) ==
    \/ latest.major > local.major
    \/ latest.major = local.major /\ latest.minor > local.minor
    \/ latest.major = local.major /\ latest.minor = local.minor
          /\ latest.patch > local.patch

\* C8: IsNewerVersion returns (true, nil) exactly when the latest version is
\* strictly greater than the local one, (false, nil) when it is equal or
\* older, and an error when either string is malformed; CreateUpdatePR maps
\* the three outcomes to "Create PR", "No PR needed" and a failure message.
C8_IsNewerVersion ==
    LET latest == NewVersion(LatestVersion)
        local == NewVersion(LocalVersion)
        malformed == latest.err \/ local.err
        newer == ~malformed /\ StrictlyNewer(latest, local)
    IN  /\ verResult.op = "IsNewerVersion" =>
            /\ malformed <=> verResult.err # ""
            /\ verResult.value <=> newer
        /\ verResult.op = "CreateUpdatePR" =>
            verResult.text = IF malformed THEN "Failed to check if newer version"
                             ELSE IF newer THEN "Create PR"
                             ELSE "No PR needed"

\* IsNewerVersion has answered true for two versions with the same major
\* number, written with a different number of characters.
C8_Witness ==
    /\ verResult.op = "IsNewerVersion"
    /\ verResult.value /\ verResult.err = ""
    /\ NewVersion(LatestVersion).major = NewVersion(LocalVersion).major
    /\ Len(LatestVersion) # Len(LocalVersion)

\* C9: GetFileFromRemote returns success only with the file's content: an
\* unresolved branch gives an error without a call of the contents
\* endpoint, and an absent path, a directory or an entry without content
\* gives an error.
C9_NoSuccessWithoutContent ==
    apiResult.op = "GetFileFromRemote" =>
        /\ apiResult.kind = "ok" => apiResult.content = ContentOf(apiResult.path)
        /\ (remote.token /\ apiResult.branch \notin remote.branches) =>
               apiResult.kind = "err" /\ apiResult.called = <<"GetRef">>
        /\ remote.entries[apiResult.path] \in {"absent", "dir", "nocontent"} =>
               apiResult.kind = "err"

\* C10: when the create request fails, CreatePullRequest returns an error
\* value, with the response body when a response came.
C10_CreateFailureReturnsError ==
    (apiResult.op = "CreatePullRequest" /\ apiResult.called = <<"Create">>
        /\ apiResult.kind # "ok") =>
        /\ apiResult.kind = "err"
        /\ remote.net => apiResult.body = "Validation Failed"


\* C11: CreateLocalBranch writes metadata only: it leaves the commit objects
\* as they were, and every branch reference other than refs/heads/<branchName>
\* keeps its hash; no reference but refs/heads/<branchName> appears.
C11_MetadataOnly ==
    [][last'.op = "CreateLocalBranch" =>
          /\ repo'.commits = repo.commits
          /\ DOMAIN repo'.refs \subseteq (DOMAIN repo.refs) \cup {last'.branch}
          /\ \A b \in (DOMAIN repo.refs) \ {last'.branch} :
                 b \in DOMAIN repo'.refs /\ repo'.refs[b] = repo.refs[b]]_vars

\* CreateLocalBranch has created a branch next to another one, and its
\* checkout has moved HEAD to another commit.
C11_Witness ==
    /\ IsCreate /\ last.ok /\ last.failed = {}
    /\ last.ref = NoHash
    /\ Cardinality(DOMAIN repo.refs) = 2
    /\ last.before # NoHash
    /\ RepoHead(repo).hash # last.before

\* C12: when CommitChangesInNewBranch returns the staging error or the commit
\* error, no commit has been created and HEAD resolves to the hash it had,
\* yet refs/heads/<branchName> holds that hash: the reference write is not
\* taken back.
C12_RefWriteNotRolledBack ==
    [][(last'.op = "CommitChangesInNewBranch"
          /\ last'.msg \in {"failed to add changes", "failed to commit changes"}) =>
          /\ ~last'.ok
          /\ repo'.commits = repo.commits
          /\ RepoHead(repo').hash = RepoHead(repo).hash
          /\ last'.branch \in DOMAIN repo'.refs
          /\ repo'.refs[last'.branch] = RepoHead(repo).hash]_vars

\* The commit step has failed after the operation created a reference that
\* did not exist: the call returned an error and changed the repository.
C12_Witness ==
    /\ IsCommit /\ ~last.ok
    /\ last.msg = "failed to commit changes"
    /\ last.ref = NoHash
    /\ last.branch \in DOMAIN repo.refs
    /\ repo.refs[last.branch] = last.before


CreateDone(p) ==
    /\ calls[p].pc = "done" /\ calls[p].op = "CreateLocalBranch"
    /\ calls[p].ok /\ calls[p].onBase

\* C13: a CreateLocalBranch whose checkout left HEAD on its base branch
\* writes under refs/heads/<branchName> a hash other than the base branch's
\* commit only when the calls on the export path are not serialized: under
\* serialized calls that state is unreachable.
C13_WrongHashOnlyByRace ==
    \A p \in Procs :
        (CreateDone(p) /\ calls[p].head # calls[p].baseAt) => ~serialized

\* Two CreateLocalBranch calls with different base branches have run
\* interleaved, and one has written under its branch name a hash that is
\* neither the commit its base branch had nor the one it has now.
C13_Witness ==
    \E p, q \in Procs :
        /\ p # q /\ ~serialized
        /\ CreateDone(p) /\ calls[p].raced
        /\ calls[q].op = "CreateLocalBranch" /\ calls[q].base # calls[p].base
        /\ calls[p].head # calls[p].baseAt
        /\ calls[p].head # repo.refs[calls[p].base]
        /\ calls[p].branch # calls[p].base
        /\ repo.refs[calls[p].branch] = calls[p].head

\* A CreateLocalBranch call and a CommitChangesInNewBranch call have run
\* interleaved, and the CreateLocalBranch has written the commit the other
\* call created instead of the commit its base branch had.
C13_WitnessCommit ==
    \E p, q \in Procs :
        /\ p # q /\ ~serialized
        /\ CreateDone(p) /\ calls[p].raced
        /\ calls[q].op = "CommitChangesInNewBranch" /\ calls[q].ok
        /\ calls[p].head # calls[p].baseAt
        /\ calls[p].head \notin DOMAIN InitCommits

\* Serialized callers have both finished a call.
C13_WitnessSerial ==
    /\ serialized
    /\ \A p \in Procs : calls[p].pc = "done" /\ calls[p].ok
    /\ \E p \in Procs : CreateDone(p)


IsCm == cmResult.op = "ReturnUpdatedCm"

\* C14: ReturnUpdatedCm (a) returns 'No update needed. Latest version is
\* <latest>' and leaves ConfigMap, LocalVersion and LatestVersion as they were
\* when the latest version is not strictly newer; (b) when it is and a
\* document comes back, the document's data.version is LatestVersion and
\* every other field of the input document is in it with the same value;
\* (c) returns an error and leaves the ConfigMap as it was when the
\* comparison fails.
C14_ReturnUpdatedCm ==
    IsCm =>
        /\ LatestVersion = cmResult.latest /\ LocalVersion = cmResult.local
        /\ (cmResult.newer.err # "") =>
              cmResult.kind = "error" /\ ConfigMap = cmResult.before
        /\ (cmResult.newer.err = "" /\ ~cmResult.newer.value) =>
              /\ cmResult.kind = "message"
              /\ cmResult.text =
                    <<"No update needed. Latest version is ", LatestVersion>>
              /\ ConfigMap = cmResult.before
        /\ (cmResult.newer.value /\ cmResult.kind = "document") =>
              /\ cmResult.doc["data.version"] = LatestVersion
              /\ \A f \in HeaderFields(cmResult.before) :
                    f \in DOMAIN cmResult.doc /\ cmResult.doc[f] = cmResult.before[f]


\* What does hold of the rewritten document: data.version is LatestVersion,
\* the fields IstioVersionCm declares keep the value the input had (the empty
\* string when the input did not have them), and nothing else is in it.
CmDeclaredFieldsKept ==
    (IsCm /\ cmResult.kind = "document") =>
        /\ cmResult.newer.value
        /\ ConfigMap = cmResult.doc
        /\ DOMAIN cmResult.doc = StructFields
        /\ cmResult.doc["data.version"] = LatestVersion
        /\ \A f \in StructFields \ {"data.version"} :
              cmResult.doc[f] = IF f \in DOMAIN cmResult.before
                                THEN cmResult.before[f] ELSE ""

\* The module's versions never change, and without a document coming back
\* the ConfigMap is the one of before the call.
CmUnchangedWithoutUpdate ==
    IsCm =>
        /\ LatestVersion = cmResult.latest /\ LocalVersion = cmResult.local
        /\ cmResult.kind # "document" => ConfigMap = cmResult.before
        /\ cmResult.newer.err # "" => cmResult.kind = "error"
        /\ (cmResult.newer.err = "" /\ ~cmResult.newer.value) =>
              cmResult.kind = "message"


IsRun == runResult.op = "RunGit"

\* s is the beginning of t.
IsPrefix(s, t) == Len(s) <= Len(t) /\ s = SubSeq(t, 1, Len(s))

Ran(step) == \E i \in DOMAIN runResult.steps : runResult.steps[i] = step

\* C15: RunGit runs its steps in the order token retrieval, owner/repo
\* extraction, 'git config user.email', 'git config user.name', 'git remote
\* set-url origin', the caller's command; when the token retrieval or the
\* extraction fails it returns an error and runs no container step; the
\* caller's command never runs before the three configuration steps.
C15_RunGitOrder ==
    IsRun =>
        /\ IsPrefix(runResult.steps, <<"token", "extract">> \o ExecSteps)
        /\ (~runResult.tokenOk \/ (Ran("extract") /\ ~runResult.extracted)) =>
              /\ runResult.kind = "error"
              /\ \A i \in DOMAIN ExecSteps : ~Ran(ExecSteps[i])
        /\ Ran("cmd") => Ran("user.email") /\ Ran("user.name") /\ Ran("set-url")

\* What does hold of RunGit: the order of the steps, and that no container
\* step runs unless the token and an owner and repository name were obtained.
RunGitStepsInOrder ==
    IsRun =>
        /\ IsPrefix(runResult.steps, <<"token", "extract">> \o ExecSteps)
        /\ (\E i \in DOMAIN ExecSteps : Ran(ExecSteps[i])) =>
              runResult.tokenOk /\ runResult.extracted
        /\ runResult.kind = "container" => Ran("cmd")

=============================================================================
